---- MODULE Spec2Model ----
(***************************************************************************)
(* Histia extraction agents (examples/histia): one agent run behind the    *)
(* FastAPI wrapper.  A run is the sequential control flow of a run_*       *)
(* coroutine: optional direct extraction from the page, the LLM agent, the *)
(* Recovery Chain over the agent history, the fallback report, and the     *)
(* HTTP answer of POST /agents/{name}/run.                                 *)
(*                                                                         *)
(* Texts are sequences of line tokens (a JSON object line, a code fence, a *)
(* markdown table row, a bold name line, ...); the parsers below consume   *)
(* them the way the regular expressions of the source consume the lines.   *)
(***************************************************************************)
EXTENDS Integers, Sequences, FiniteSets, TLC

(***************************************************************************)
(* Bounds of the model.                                                    *)
(***************************************************************************)
MaxOutputs == 2
MaxActions == 1
MaxCap == 2

(***************************************************************************)
(* The caps from which the runs stop truncating: max_startups < 1000 in    *)
(* run_startup_listing, max_... < 10000 in the other runs.                 *)
(***************************************************************************)
NoTruncationStartups == 1000

NoTruncationDefault == 10000

LongTableRows == NoTruncationStartups + 1

(***************************************************************************)
(* Values.                                                                 *)
(***************************************************************************)
SENTINEL_NAME == "Informations indisponibles"

Url(s, h, p) == [scheme |-> s, host |-> h, path |-> p]

NoUrl == Url("", "", "")

IsAbsolute(u) == u.scheme \in {"http", "https"}

SiteUrl == Url("https", "site.test", "/list")

Record(n, u, d, ns) == [name |-> n, url |-> u, description |-> d, notes |-> ns]

RecAcme == Record("Acme", Url("https", "site.test", "/posts/acme"), <<"makes things">>, <<"b2b">>)

RecBeta == Record("Beta", Url("", "", "/posts/beta"), <<>>, <<>>)

RecForum == Record("forum", NoUrl, <<>>, <<>>)

NoReport == [kind |-> "none"]

Report(schema, src, recs, notes) ==
    [kind |-> "report", schema |-> schema, source_url |-> src, records |-> recs, notes |-> notes]

(***************************************************************************)
(* str.lower() on the names that occur in the model.                       *)
(***************************************************************************)
Lower(s) ==
    CASE s = "Acme" -> "acme"
      [] s = "ACME" -> "acme"
      [] s = "Beta" -> "beta"
      [] s = "Name" -> "name"
      [] s = "Rank" -> "rank"
      [] OTHER -> s

Last(s) == s[Len(s)]

(***************************************************************************)
(* JSON payloads and pydantic validation of a report schema.               *)
(* min_length of the record list is 1 for every report except the          *)
(* universal and the zone-secure ones (min_length=0).                      *)
(***************************************************************************)
Payload(src, recs) == [source_url |-> src, records |-> recs]

PayloadGood == Payload(SiteUrl, <<RecAcme, RecBeta>>)

PayloadEmpty == Payload(SiteUrl, <<>>)

MinLength(schema) ==
    IF schema \in {"StartupExtractionReport", "ZoneSecureStartupsReport"} THEN 0 ELSE 1

SchemaValid(schema, p) ==
    /\ IsAbsolute(p.source_url)
    /\ Len(p.records) >= MinLength(schema)

Validated(schema, p) == Report(schema, p.source_url, p.records, <<>>)

(***************************************************************************)
(* Line tokens of a text.                                                  *)
(***************************************************************************)
JsonLine(p) == [t |-> "json", payload |-> p]

Fence == [t |-> "fence"]

Prose == [t |-> "prose"]

THead(cols) == [t |-> "thead", cols |-> cols]

TSep == [t |-> "tsep"]

TRow(rank, name, url, description, tags) ==
    [t |-> "trow", rank |-> rank, name |-> name, url |-> url,
     description |-> description, tags |-> tags]

NumberedName(n) == [t |-> "numbered_name", name |-> n]

BoldNameColon(n) == [t |-> "bold_name_colon", name |-> n]

NameColonBold(n) == [t |-> "name_colon_bold", name |-> n]

Heading(x, section) == [t |-> "heading", name |-> x, section |-> section]

FieldLine(k, v) == [t |-> "field", key |-> k, value |-> v]

DescriptionLine(v) == [t |-> "description", value |-> v]

(***************************************************************************)
(* The texts an agent step can leave in the history.                       *)
(***************************************************************************)
TextJson == <<JsonLine(PayloadGood)>>

TextJsonEmpty == <<JsonLine(PayloadEmpty)>>

TextFenced == <<Prose, Fence, JsonLine(PayloadGood), Fence>>

TextTwoFences == <<Fence, JsonLine(PayloadGood), Fence, Prose, Fence, JsonLine(PayloadGood), Fence>>

TextInline == <<Prose, JsonLine(PayloadGood)>>

TextTable ==
    <<Prose, THead("rank_name_url_description_tags"), TSep,
      TRow("1", "Acme", Url("", "", "/posts/acme"), "makes things", <<"b2b">>),
      TRow("2", "Beta", NoUrl, "null", <<>>)>>

TextTableAlias ==
    <<THead("startup_name_description_url_tags"), TSep,
      TRow("1", "Acme", Url("", "", "/posts/acme"), "makes things", <<"b2b">>)>>

TextNumbered == <<NumberedName("Acme"), FieldLine("Tagline", "fast"), NumberedName("Beta")>>

TextBoldName == <<BoldNameColon("Acme"), FieldLine("Tagline", "fast")>>

TextHeading == <<Heading("Beta", FALSE), DescriptionLine("null"), Heading("Short Notes", TRUE)>>

TextProse == <<Prose>>

(* A listing longer than the largest max_startups the input accepts.       *)
TextLongTable ==
    <<THead("rank_name_url_description_tags"), TSep>> \o
    [i \in 1..LongTableRows |->
        TRow(ToString(i), "Startup " \o ToString(i), NoUrl, "null", <<>>)]

Texts ==
    {TextJson, TextJsonEmpty, TextFenced, TextTwoFences, TextInline, TextTable,
     TextTableAlias, TextNumbered, TextBoldName, TextHeading, TextProse}

(***************************************************************************)
(* Report.model_validate_json(text): the text must be one JSON document    *)
(* that satisfies the schema.                                              *)
(***************************************************************************)
JsonValid(schema, text) ==
    /\ Len(text) = 1
    /\ text[1].t = "json"
    /\ SchemaValid(schema, text[1].payload)

(***************************************************************************)
(* The fenced-block search (DOTALL, greedy group): the leftmost fence that  *)
(* an opening brace follows, then up to the last closing brace that a      *)
(* fence follows.  The group is the run of lines in between.               *)
(***************************************************************************)
FenceOpens(text) ==
    {i \in 1..(Len(text) - 2) :
        /\ text[i].t = "fence"
        /\ text[i + 1].t = "json"
        /\ \E j \in (i + 2)..Len(text) : text[j].t = "fence" /\ text[j - 1].t = "json"}

Min(S) == CHOOSE x \in S : \A y \in S : x <= y

Max(S) == CHOOSE x \in S : \A y \in S : x >= y

FencedGroup(text) ==
    LET i == Min(FenceOpens(text))
        j == Max({k \in (i + 2)..Len(text) : text[k].t = "fence" /\ text[k - 1].t = "json"})
    IN SubSeq(text, i + 1, j - 1)

FencedValid(schema, text) ==
    /\ FenceOpens(text) # {}
    /\ JsonValid(schema, FencedGroup(text))

(***************************************************************************)
(* The last search of the second pass (an object with at most one level of *)
(* nested braces): the first JSON object of the content, wherever it       *)
(* stands.                                                                 *)
(***************************************************************************)
ObjectLines(text) == {i \in 1..Len(text) : text[i].t = "json"}

ObjectValid(schema, text) ==
    /\ ObjectLines(text) # {}
    /\ SchemaValid(schema, text[Min(ObjectLines(text))].payload)

(***************************************************************************)
(* _parse_extracted_markdown, table part.                                  *)
(***************************************************************************)
DigitRanks == {ToString(i) : i \in 1..LongTableRows}

StrictHeaders == {"rank_name_url_description_tags"}

FlexibleHeaders == {"rank_name_url_description_tags", "rank_name_other"}

TableStarts(text, headers) ==
    {i \in 1..(Len(text) - 2) :
        /\ text[i].t = "thead"
        /\ text[i].cols \in headers
        /\ text[i + 1].t = "tsep"
        /\ text[i + 2].t = "trow"
        /\ text[i + 2].rank \in DigitRanks}

(* The rows the group of the pattern takes: the run of rank rows that      *)
(* starts at line i.                                                       *)
TableRows(text, i) ==
    LET stops == {j \in i..Len(text) : ~(text[j].t = "trow" /\ text[j].rank \in DigitRanks)}
        end == IF stops = {} THEN Len(text) + 1 ELSE Min(stops)
    IN SubSeq(text, i, end - 1)

TableUrl(u) ==
    IF u = NoUrl THEN NoUrl
    ELSE IF ~IsAbsolute(u) /\ u.host = "" THEN Url("https", "www.producthunt.com", u.path)
    ELSE IF IsAbsolute(u) THEN u
    ELSE IF u.host = "producthunt.com" THEN Url("https", "www.producthunt.com", u.path)
    ELSE NoUrl

TableRowRecord(row) ==
    Record(row.name, TableUrl(row.url),
           IF Lower(row.description) \in {"null", "n/a", ""} THEN <<>> ELSE <<row.description>>,
           row.tags)

SkipRow(row) ==
    \/ Lower(row.name) \in {"name", "product", "title"}
    \/ Lower(row.rank) = "rank"
    \/ row.rank \notin DigitRanks
    \/ row.name = ""

TableRecords(rows) ==
    LET kept == SelectSeq(rows, LAMBDA row : ~SkipRow(row))
    IN [i \in 1..Len(kept) |-> TableRowRecord(kept[i])]

ParseTable(text) ==
    LET strict == TableStarts(text, StrictHeaders)
        flexible == TableStarts(text, FlexibleHeaders)
        start == IF strict # {} THEN Min(strict) ELSE Min(flexible)
    IN IF strict = {} /\ flexible = {} THEN <<>>
       ELSE TableRecords(TableRows(text, start + 2))

(***************************************************************************)
(* _parse_extracted_markdown, line-by-line part.  The parser state is the  *)
(* list of finished startups, the startup being filled in (cur) and the    *)
(* two mode flags.                                                         *)
(***************************************************************************)
NoCur == [name |-> ""]

NewCur(n) == Record(n, NoUrl, <<>>, <<>>)

LineState0 == [startups |-> <<>>, cur |-> NoCur, in_description |-> FALSE, in_short_notes |-> FALSE]

Saved(st) == IF st.cur.name # "" THEN Append(st.startups, st.cur) ELSE st.startups

NullValues == {"null", "(not specified)", "(not available)", "(no description provided)"}

LineStep(st, l) ==
    CASE l.t = "numbered_name" ->
            [startups |-> Saved(st), cur |-> NewCur(l.name),
             in_description |-> FALSE, in_short_notes |-> FALSE]
      [] l.t = "heading" ->
            IF l.section THEN st
            ELSE [startups |-> Saved(st), cur |-> NewCur(l.name),
                  in_description |-> FALSE, in_short_notes |-> FALSE]
      [] l.t = "name_colon_bold" ->
            IF st.cur.name = ""
            THEN [startups |-> st.startups, cur |-> NewCur(l.name),
                  in_description |-> FALSE, in_short_notes |-> FALSE]
            ELSE [st EXCEPT !.cur.name = l.name]
      [] l.t = "bold_name_colon" ->
            IF st.cur.name # "" /\ st.in_description
            THEN [st EXCEPT !.in_description = FALSE]
            ELSE st
      [] l.t = "description" ->
            IF st.cur.name = "" THEN st
            ELSE [st EXCEPT !.in_description = TRUE, !.in_short_notes = FALSE,
                            !.cur.description =
                                IF Lower(l.value) \in NullValues THEN <<>> ELSE <<l.value>>]
      [] l.t = "field" ->
            IF st.cur.name = "" THEN st
            ELSE IF ~st.in_description /\ ~st.in_short_notes
                 THEN IF Lower(l.value) \in NullValues THEN st
                      ELSE [st EXCEPT !.cur.notes = Append(@, l.key)]
                 ELSE IF st.in_description THEN [st EXCEPT !.in_description = FALSE]
                 ELSE st
      [] OTHER ->
            IF st.cur.name # "" /\ st.in_description
            THEN [st EXCEPT !.cur.description = Append(@, "continued")]
            ELSE st

RECURSIVE LineFold(_, _)
LineFold(st, text) ==
    IF text = <<>> THEN st ELSE LineFold(LineStep(st, Head(text)), Tail(text))

ParseLines(text) == Saved(LineFold(LineState0, text))

(***************************************************************************)
(* _parse_extracted_markdown: the table if one yields startups, else the   *)
(* line-by-line parse; <<>> stands for the None result.                    *)
(***************************************************************************)
parse_extracted_markdown(text) ==
    IF ParseTable(text) # <<>> THEN ParseTable(text) ELSE ParseLines(text)

(***************************************************************************)
(* The agents and their report schemas.                                    *)
(***************************************************************************)
Registered ==
    {"product_research", "startup_listing", "universal_startup_extractor",
     "product_hunt_leaderboard", "futuretools_extractor", "appsumo_hot_extractor",
     "stationf_companies_extractor", "zone_secure_startups_extractor"}

Agents == Registered \cup {"deeptech_companies"}

SchemaOf(a) ==
    CASE a = "product_research" -> "ProductResearchReport"
      [] a = "startup_listing" -> "StartupListingReport"
      [] a = "universal_startup_extractor" -> "StartupExtractionReport"
      [] a = "product_hunt_leaderboard" -> "ProductHuntLeaderboardReport"
      [] a = "futuretools_extractor" -> "FutureToolsReport"
      [] a = "appsumo_hot_extractor" -> "AppSumoHotReport"
      [] a = "stationf_companies_extractor" -> "StationFCompaniesReport"
      [] a = "zone_secure_startups_extractor" -> "ZoneSecureStartupsReport"
      [] a = "deeptech_companies" -> "DeeptechCompaniesReport"

RecordsKey(schema) ==
    CASE schema \in {"StartupListingReport", "StartupExtractionReport",
                     "ZoneSecureStartupsReport"} -> "startups"
      [] schema \in {"ProductResearchReport", "ProductHuntLeaderboardReport",
                     "AppSumoHotReport"} -> "products"
      [] schema = "FutureToolsReport" -> "tools"
      [] OTHER -> "companies"

(***************************************************************************)
(* The run_* coroutines that start their own Browser, those that extract   *)
(* from the page before any agent is created, and the url fields declared  *)
(* as plain str (converted to AnyHttpUrl inside the run).                  *)
(***************************************************************************)
UsesBrowser == Agents \ {"product_research", "startup_listing"}

HasDirect ==
    {"appsumo_hot_extractor", "futuretools_extractor", "product_hunt_leaderboard",
     "stationf_companies_extractor", "deeptech_companies"}

UrlIsStr ==
    {"universal_startup_extractor", "zone_secure_startups_extractor",
     "stationf_companies_extractor"}

(***************************************************************************)
(* Failure reasons handed to _fallback_report, and the notes the fallback  *)
(* reports carry.                                                          *)
(***************************************************************************)
ReasonInterrupted == "L'agent a ete interrompu avant de finaliser le JSON."

ReasonNoJson == "L'agent a ete interrompu avant de produire le JSON structure attendu."

ReasonBadJson == "Impossible de parser le JSON structure retourne par le modele (ValidationError)."

ReasonNoData == "L'agent n'a pas pu extraire les donnees."

ReasonNoStartups == "Extraction failed: no startups found."

ReasonDirectFailed == "Extraction directe echouee: aucune section trouvee apres le scroll."

ReasonPrecheck == "Impossible de recuperer la page"

NoteGenerated == "Rapport genere automatiquement (agent interrompu avant la fin)."

MentionsInterrompu(s) == s \in {ReasonInterrupted, ReasonNoJson, NoteGenerated}

fallback_report_startup_listing(source_url, reason) ==
    Report("StartupListingReport", source_url,
           <<Record(SENTINEL_NAME, source_url, <<>>, <<reason, NoteGenerated>>)>>, <<>>)

(* The company profile of a product-research report is modelled where the  *)
(* run itself builds it: in the fallback report, whose notes are the       *)
(* other_facts of that profile.                                            *)
CompanyProfile(n) == [name |-> n]

fallback_report_product_research(source_url, reason) ==
    [kind |-> "report", schema |-> "ProductResearchReport", source_url |-> source_url,
     records |-> <<Record(SENTINEL_NAME, NoUrl, <<reason>>, <<>>)>>,
     notes |-> <<reason, NoteGenerated>>,
     company |-> CompanyProfile("")]

fallback_report_universal(source_url, reason) ==
    Report("StartupExtractionReport", source_url, <<>>, <<reason>>)

fallback_report_zone_secure(source_url, reason) ==
    Report("ZoneSecureStartupsReport", source_url, <<>>, <<>>)

fallback_report_futuretools(source_url, reason) ==
    Report("FutureToolsReport", source_url,
           <<Record(SENTINEL_NAME, source_url, <<>>, <<>>)>>, <<>>)

fallback_report_product_hunt(source_url, reason) ==
    Report("ProductHuntLeaderboardReport", source_url,
           <<Record(SENTINEL_NAME, source_url, <<>>, <<>>)>>, <<>>)

fallback_report_stationf(source_url, reason) ==
    Report("StationFCompaniesReport", source_url,
           <<Record(SENTINEL_NAME, source_url, <<>>, <<>>)>>, <<>>)

fallback_report_deeptech(source_url, reason) ==
    Report("DeeptechCompaniesReport", source_url,
           <<Record(SENTINEL_NAME, source_url, <<>>, <<>>)>>, <<>>)

(***************************************************************************)
(* What each run_* returns when its chain is exhausted; appsumo has no     *)
(* fallback report and returns None.                                       *)
(***************************************************************************)
FallbackOf(a, source_url, reason) ==
    CASE a = "startup_listing" -> fallback_report_startup_listing(source_url, reason)
      [] a = "product_research" -> fallback_report_product_research(source_url, reason)
      [] a = "universal_startup_extractor" -> fallback_report_universal(source_url, reason)
      [] a = "zone_secure_startups_extractor" -> fallback_report_zone_secure(source_url, reason)
      [] a = "futuretools_extractor" -> fallback_report_futuretools(source_url, reason)
      [] a = "product_hunt_leaderboard" -> fallback_report_product_hunt(source_url, reason)
      [] a = "stationf_companies_extractor" -> fallback_report_stationf(source_url, reason)
      [] a = "deeptech_companies" -> fallback_report_deeptech(source_url, reason)
      [] a = "appsumo_hot_extractor" -> NoReport

(***************************************************************************)
(* Post-processing of a report that a chain state produced.                *)
(***************************************************************************)
RECURSIVE NonBlank(_)
NonBlank(notes) ==
    IF notes = <<>> THEN <<>>
    ELSE (IF Head(notes) = "" THEN <<>> ELSE <<Head(notes)>>) \o NonBlank(Tail(notes))

normalize_listing_url(u, base) ==
    IF u = NoUrl THEN NoUrl
    ELSE IF IsAbsolute(u) THEN u
    ELSE Url(base.scheme, base.host, u.path)

SanitizeStartup(r, base) ==
    [r EXCEPT !.url = IF r.url = NoUrl THEN NoUrl
                      ELSE IF ~IsAbsolute(r.url) THEN normalize_listing_url(r.url, base)
                      ELSE IF r.url # base THEN Url(r.url.scheme, r.url.host, "")
                      ELSE r.url,
              !.notes = NonBlank(r.notes)]

sanitize_report_startup_listing(report) ==
    [report EXCEPT !.records =
        [i \in 1..Len(report.records) |-> SanitizeStartup(report.records[i], report.source_url)]]

ExcludedNames == {"forum", "plan", "sommaire", "startup"}

HasAdditionalInfo(r) == r.description # <<>> \/ r.url # NoUrl \/ r.notes # <<>>

RECURSIVE filter_navigation_elements(_)
filter_navigation_elements(recs) ==
    IF recs = <<>> THEN <<>>
    ELSE LET r == Head(recs)
             drop == \/ r.name = ""
                     \/ Lower(r.name) \in ExcludedNames
                     \/ (~HasAdditionalInfo(r) /\ Lower(r.name) = r.name)
         IN (IF drop THEN <<>> ELSE <<r>>) \o filter_navigation_elements(Tail(recs))

(* Variant: every run sanitizes the report like the startup-listing run.   *)
PostProcessSanitizesAll(a, report) == sanitize_report_startup_listing(report)

(* product_research's _sanitize_report only rewrites company.linkedin_page, *)
(* which the reports of the model do not carry.                            *)
PostProcess(a, report) ==
    CASE a = "startup_listing" -> sanitize_report_startup_listing(report)
      [] a = "zone_secure_startups_extractor" ->
            [report EXCEPT !.records = filter_navigation_elements(report.records)]
      [] OTHER -> report

(***************************************************************************)
(* Agent histories.  final_result() is the content of the last step,       *)
(* extracted_content() the contents of all steps, model_actions() the      *)
(* actions the model took; <<>> stands for "no final result".              *)
(***************************************************************************)
SeqsUpTo(S, n) == UNION {[1..k -> S] : k \in 0..n}

ActOther == [name |-> "click", has_data |-> FALSE, data |-> PayloadEmpty, leaves |-> "str"]

ActDoneNoData == [name |-> "done", has_data |-> FALSE, data |-> PayloadEmpty, leaves |-> "str"]

ActDoneGood == [name |-> "done", has_data |-> TRUE, data |-> PayloadGood, leaves |-> "str"]

ActDoneBad == [name |-> "done", has_data |-> TRUE, data |-> PayloadEmpty, leaves |-> "str"]

ModelActions == {ActOther, ActDoneNoData, ActDoneGood, ActDoneBad}

(* Done payloads whose url leaves are url objects, or objects of another   *)
(* type that only json.dumps(default=str) turns into text.                 *)
MaxDoneActions == 3

DoneActions ==
    ModelActions \cup
        {[name |-> "done", has_data |-> TRUE, data |-> Payload(SiteUrl, <<RecBeta>>),
          leaves |-> "url"],
         [name |-> "done", has_data |-> TRUE, data |-> Payload(SiteUrl, <<RecForum>>),
          leaves |-> "object"]}

StructuredOutputs(schema) ==
    {NoReport,
     Report(schema, SiteUrl, <<RecAcme, RecBeta>>, <<>>),
     Report(schema, SiteUrl, <<RecForum>>, <<>>)}

Histories(a) ==
    [structured : StructuredOutputs(SchemaOf(a)),
     outputs : IF a = "startup_listing"
               THEN SeqsUpTo(Texts, MaxOutputs) \cup {<<TextLongTable>>}
               ELSE SeqsUpTo(Texts, 1),
     actions : SeqsUpTo(ModelActions, IF a = "startup_listing" THEN MaxActions ELSE 0)]

NoHistory == [structured |-> NoReport, outputs |-> <<>>, actions |-> <<>>]

final_result(h) == IF h.outputs = <<>> THEN <<>> ELSE Last(h.outputs)

extracted_content(h) == h.outputs

model_actions(h) == h.actions

RECURSIVE Reverse(_)
Reverse(s) == IF s = <<>> THEN <<>> ELSE Reverse(Tail(s)) \o <<Head(s)>>

Take(s, n) == IF Len(s) > n THEN SubSeq(s, 1, n) ELSE s

(***************************************************************************)
(* The attempt log: one entry per source the chain tries, tagged with the  *)
(* stage of the run that tried it.                                         *)
(***************************************************************************)
Try(stage, source) == [stage |-> stage, source |-> source]

MarkdownTries(stage, text) ==
    IF ParseTable(text) # <<>> THEN <<Try(stage, "table")>>
    ELSE <<Try(stage, "table"), Try(stage, "line")>>

(***************************************************************************)
(* run_startup_listing, the forward loop over the extracted contents:      *)
(* every content is parsed as markdown and the startups are accumulated,   *)
(* a name being kept the first time it is seen.                            *)
(***************************************************************************)
AddUnique(acc, recs) ==
    LET seen_names == {acc[i].name : i \in 1..Len(acc)}
        names == [i \in 1..Len(recs) |-> recs[i].name]
        IsNew(i) == /\ names[i] # ""
                    /\ names[i] \notin seen_names
                    /\ \A j \in 1..(i - 1) : names[j] # names[i]
        kept == SelectSeq([i \in 1..Len(recs) |-> i], LAMBDA i : IsNew(i))
    IN acc \o [k \in 1..Len(kept) |-> recs[kept[k]]]

RECURSIVE ForwardStartups(_, _)
ForwardStartups(acc, contents) ==
    IF contents = <<>> THEN acc
    ELSE ForwardStartups(AddUnique(acc, parse_extracted_markdown(Head(contents))),
                         Tail(contents))

RECURSIVE ForwardTries(_)
ForwardTries(contents) ==
    IF contents = <<>> THEN <<>>
    ELSE MarkdownTries("markdown", Head(contents)) \o ForwardTries(Tail(contents))

(***************************************************************************)
(* run_startup_listing, the reversed loop: each content is tried as        *)
(* markdown, as a JSON document, as a fenced JSON block and as an embedded *)
(* JSON object; the first report wins.                                     *)
(***************************************************************************)
ContentReport(schema, src, text) ==
    IF parse_extracted_markdown(text) # <<>>
    THEN Report(schema, src, parse_extracted_markdown(text), <<>>)
    ELSE IF JsonValid(schema, text) THEN Validated(schema, text[1].payload)
    ELSE IF FencedValid(schema, text) THEN Validated(schema, FencedGroup(text)[1].payload)
    ELSE IF ObjectValid(schema, text) THEN Validated(schema, text[Min(ObjectLines(text))].payload)
    ELSE NoReport

ContentTries(schema, text) ==
    MarkdownTries("second_pass", text) \o
    (IF parse_extracted_markdown(text) # <<>> THEN <<>>
     ELSE <<Try("second_pass", "json")>> \o
          (IF JsonValid(schema, text) THEN <<>>
           ELSE <<Try("second_pass", "fenced")>> \o
                (IF FencedValid(schema, text) THEN <<>>
                 ELSE <<Try("second_pass", "object")>>)))

RECURSIVE SecondPassReport(_, _, _)
SecondPassReport(schema, src, contents) ==
    IF contents = <<>> THEN NoReport
    ELSE IF ContentReport(schema, src, Head(contents)) # NoReport
         THEN ContentReport(schema, src, Head(contents))
         ELSE SecondPassReport(schema, src, Tail(contents))

RECURSIVE SecondPassTries(_, _, _)
SecondPassTries(schema, src, contents) ==
    IF contents = <<>> THEN <<>>
    ELSE ContentTries(schema, Head(contents)) \o
         (IF ContentReport(schema, src, Head(contents)) # NoReport THEN <<>>
          ELSE SecondPassTries(schema, src, Tail(contents)))

(***************************************************************************)
(* run_startup_listing, the loop over the reversed model actions: the      *)
(* first done action whose data validates gives the report.                *)
(***************************************************************************)
(* convert_urls_to_strings: url objects become their text.                 *)
convert_urls_to_strings(act) == [act EXCEPT !.leaves = IF @ = "url" THEN "str" ELSE @]

(* model_validate accepts text leaves only; json.dumps(data, default=str)   *)
(* turns every remaining object into text before model_validate_json.      *)
model_validate(schema, act) == act.leaves = "str" /\ SchemaValid(schema, act.data)

json_dumps_default_str(act) == [act EXCEPT !.leaves = "str"]

DoneValid(schema, act) ==
    LET data_copy == convert_urls_to_strings(act)
    IN /\ act.name = "done"
       /\ act.has_data
       /\ \/ model_validate(schema, data_copy)
          \/ model_validate(schema, json_dumps_default_str(data_copy))

RECURSIVE DoneTries(_, _)
DoneTries(schema, actions) ==
    IF actions = <<>> THEN <<>>
    ELSE LET act == Head(actions)
         IN IF act.name = "done" /\ act.has_data
            THEN <<Try("done_payload", "done")>> \o
                 (IF DoneValid(schema, act) THEN <<>> ELSE DoneTries(schema, Tail(actions)))
            ELSE DoneTries(schema, Tail(actions))

(* Variant: the actions are taken in the order they were made.             *)
DoneReportOldestFirst(schema, actions) ==
    LET valid == SelectSeq(actions, LAMBDA act : DoneValid(schema, act))
    IN IF valid = <<>> THEN NoReport ELSE Validated(schema, valid[Len(valid)].data)

DoneReport(schema, actions) ==
    LET valid == SelectSeq(actions, LAMBDA act : DoneValid(schema, act))
    IN IF valid = <<>> THEN NoReport ELSE Validated(schema, valid[1].data)

(***************************************************************************)
(* Direct extraction: the page script returns the HTML of the listing      *)
(* cards; a card is parsed into a record unless it has no name.            *)
(***************************************************************************)
MaxFragments == 2

Fragment(n, path) == [name |-> n, href |-> path]

Fragments ==
    {Fragment("Acme", "/posts/acme"), Fragment("ACME", "/posts/acme"),
     Fragment("Beta", "/posts/beta"), Fragment("", "/posts/none")}

PageOutcomes == {"nopage", "raises", "malformed"}

parse_product_card(f, base) ==
    Record(f.name, Url(base.scheme, base.host, f.href), <<>>, <<>>)

DedupKey(a, r) ==
    CASE a \in {"appsumo_hot_extractor", "futuretools_extractor"} -> <<Lower(r.name)>>
      [] a = "deeptech_companies" -> <<r.name, r.url.path>>
      [] OTHER -> <<>>

Dedups(a) == a \in {"appsumo_hot_extractor", "futuretools_extractor", "deeptech_companies"}

RECURSIVE parse_html_sections(_, _, _, _)
parse_html_sections(a, base, acc, frags) ==
    IF frags = <<>> THEN acc
    ELSE LET r == parse_product_card(Head(frags), base)
             seen == {DedupKey(a, acc[i]) : i \in 1..Len(acc)}
             keep == r.name # "" /\ (Dedups(a) => DedupKey(a, r) \notin seen)
         IN parse_html_sections(a, base, IF keep THEN Append(acc, r) ELSE acc, Tail(frags))

NoTruncation(a) ==
    IF a = "startup_listing" THEN NoTruncationStartups ELSE NoTruncationDefault

Caps(a) == (1..MaxCap) \cup (IF a = "appsumo_hot_extractor" THEN {} ELSE {NoTruncation(a)})

DirectTruncate(a, cap, recs) ==
    IF a = "appsumo_hot_extractor" THEN Take(recs, cap)
    ELSE IF cap < NoTruncation(a) THEN Take(recs, cap) ELSE recs

(* The runs that create the agent when the direct extraction gave nothing;  *)
(* the others return their fallback report at once.  In                    *)
(* futuretools_extractor.py the lines 781-784 (agent.run and the usage      *)
(* summary) stand one level left of the try block they belong to; the      *)
(* model reads them inside that block, like the same lines of the sibling  *)
(* runs.                                                                   *)
DirectFailureToAgent == {"appsumo_hot_extractor", "futuretools_extractor"}

ProductHuntUrl == Url("https", "www.producthunt.com", "/leaderboard/daily")

DeeptechUrl == Url("https", "observatoire.lesdeeptech.fr", "/companies")

StationFUrl == Url("https", "hal2.stationf.co", "/companies")

TaskUrl(a) ==
    CASE a = "product_hunt_leaderboard" -> ProductHuntUrl
      [] a = "deeptech_companies" -> DeeptechUrl
      [] a = "stationf_companies_extractor" -> StationFUrl
      [] OTHER -> SiteUrl

(* 'producthunt.com' in url.lower(): the test looks for the site's name    *)
(* anywhere in the url, so a path that carries it passes as the host does. *)
UrlMentions(u, domain) == u.host = domain \/ u.path = "/" \o domain

SanitizeOnDomain(r, base, domain) ==
    [r EXCEPT !.url = IF r.url = NoUrl THEN NoUrl
                      ELSE IF ~IsAbsolute(r.url) THEN Url(base.scheme, base.host, r.url.path)
                      ELSE IF ~UrlMentions(r.url, domain) THEN NoUrl
                      ELSE r.url,
              !.notes = NonBlank(r.notes)]

sanitize_report_product_hunt(report) ==
    [report EXCEPT !.records =
        [i \in 1..Len(report.records) |->
            SanitizeOnDomain(report.records[i], report.source_url, ProductHuntUrl.host)]]

sanitize_report_deeptech(report) ==
    [report EXCEPT !.records =
        [i \in 1..Len(report.records) |->
            SanitizeOnDomain(report.records[i], report.source_url, DeeptechUrl.host)]]

sanitize_report_stationf(report) ==
    [report EXCEPT !.records =
        [i \in 1..Len(report.records) |->
            SanitizeOnDomain(report.records[i], report.source_url, StationFUrl.host)]]

(* Variant: the second pass takes the first tool for a header and skips it. *)
unique_tools_skips_first(tools) == IF tools = <<>> THEN <<>> ELSE Tail(tools)

(* run_futuretools_extraction removes duplicates by lower-cased name once  *)
(* more from the tools that _parse_html_sections returned.                 *)
unique_tools(tools) ==
    LET keys == [i \in 1..Len(tools) |-> Lower(tools[i].name)]
        kept == SelectSeq([i \in 1..Len(tools) |-> i],
                          LAMBDA i : \A j \in 1..(i - 1) : keys[j] # keys[i])
    IN [k \in 1..Len(kept) |-> tools[kept[k]]]

DirectReport(a, cap, frags) ==
    LET parsed == parse_html_sections(a, TaskUrl(a), <<>>, frags)
        recs == IF a = "futuretools_extractor" THEN unique_tools(parsed) ELSE parsed
        report == Report(SchemaOf(a), TaskUrl(a), DirectTruncate(a, cap, recs), <<>>)
    IN IF recs = <<>> THEN NoReport
       ELSE IF a = "product_hunt_leaderboard" THEN sanitize_report_product_hunt(report)
       ELSE IF a = "deeptech_companies" THEN sanitize_report_deeptech(report)
       ELSE IF a = "stationf_companies_extractor" THEN sanitize_report_stationf(report)
       ELSE report

(***************************************************************************)
(* _is_fallback_report of the HTTP wrapper, on the dumped report.          *)
(***************************************************************************)
is_fallback_report(r) ==
    LET key == RecordsKey(r.schema)
        one == Len(r.records) = 1
        first == r.records[1]
    IN \/ /\ key = "startups" /\ one
          /\ first.name = SENTINEL_NAME
          /\ r.schema = "StartupListingReport"
          /\ \E i \in 1..Len(first.notes) : MentionsInterrompu(first.notes[i])
       \/ /\ r.schema = "ProductResearchReport" /\ one
          /\ first.name = SENTINEL_NAME
          /\ \E i \in 1..Len(r.notes) : MentionsInterrompu(r.notes[i])
       \/ /\ key = "products" /\ one
          /\ r.schema # "ProductResearchReport"
          /\ first.name = SENTINEL_NAME
       \/ /\ key = "startups" /\ one
          /\ first.name = SENTINEL_NAME

(***************************************************************************)
(* Serialization of a report.  str(AnyHttpUrl) is the text of the url, a   *)
(* url without a path being written with the path "/".  The serializer of  *)
(* source_url and the model_dump override put that text in the place of    *)
(* the AnyHttpUrl object.                                                  *)
(***************************************************************************)
UrlStr(u) == [str |-> <<u.scheme, u.host, IF u.path = "" THEN "/" ELSE u.path>>]

IsPlainString(v) == DOMAIN v = {"str"}

(* Variant: no serializer, the dump keeps the AnyHttpUrl object.           *)
model_dump_keeps_object(report) == report

(* ProductResearchReport declares no source_url and no serializer.         *)
model_dump(report) ==
    IF report.schema = "ProductResearchReport" THEN report
    ELSE [report EXCEPT !.source_url = UrlStr(report.source_url)]

(***************************************************************************)
(* examples/histia/__init__.py: the usage summary printed after agent.run. *)
(* A cost is a float; it is modelled as a whole number of 1e-5 dollars     *)
(* that is not an exact tie of the fourth decimal.  Accents and emoji of   *)
(* the printed text are dropped.                                           *)
(***************************************************************************)
Digits == <<"0", "1", "2", "3", "4", "5", "6", "7", "8", "9">>

Digit(k) == Digits[k + 1]

(* f'{n:,}' for a non-negative int: groups of three digits.                *)
RECURSIVE Thousands(_)
Thousands(n) ==
    IF n < 1000 THEN ToString(n)
    ELSE Thousands(n \div 1000) \o "," \o Digit((n \div 100) % 10)
              \o Digit((n \div 10) % 10) \o Digit(n % 10)

(* Variant: two decimals, as a price is usually printed.                   *)
format_currency_cents(amount) ==
    LET r == (amount + 500) \div 1000
    IN <<"$", ToString(r \div 100), ".", Digit((r \div 10) % 10), Digit(r % 10)>>

(* _format_currency: f'${amount:.4f}', rounded to the nearest 1e-4.        *)
format_currency(amount) ==
    LET r == (amount + 5) \div 10
    IN <<"$", ToString(r \div 10000), ".", Digit((r \div 1000) % 10),
         Digit((r \div 100) % 10), Digit((r \div 10) % 10), Digit(r % 10)>>

UsageSummary(pt, pcost, ct, ccost) ==
    [total_prompt_tokens |-> pt, total_prompt_cost |-> pcost,
     total_completion_tokens |-> ct, total_completion_cost |-> ccost,
     total_tokens |-> pt + ct, total_cost |-> pcost + ccost]

NoUsage == [kind |-> "None"]

HistoryArgs ==
    {[kind |-> "None"]}
        \cup {[kind |-> "history", usage |-> NoUsage]}
        \cup {[kind |-> "history", usage |-> UsageSummary(pt, c1, ct, c2)] :
                 pt \in {0, 123, 1000}, ct \in {0, 456, 1234567},
                 c1 \in {0, 4, 1230}, c2 \in {0, 6, 4560, 99996, 100000}}

NoticeNoHistory == <<"Impossible d'afficher la consommation LLM: historique indisponible.">>

NoticeNoUsage == <<"Aucune donnee de consommation LLM n'a ete renvoyee par l'agent.">>

usage_lines(usage) ==
    << <<"Consommation LLM">>,
       <<"   Cout total : ">> \o format_currency(usage.total_cost)
           \o <<" pour ", Thousands(usage.total_tokens), " tokens">>,
       <<"   Prompt      : ", Thousands(usage.total_prompt_tokens), " tokens", " (">>
           \o format_currency(usage.total_prompt_cost) \o <<")">>,
       <<"   Completion  : ", Thousands(usage.total_completion_tokens), " tokens", " (">>
           \o format_currency(usage.total_completion_cost) \o <<")">> >>

NoConsole == [history |-> [kind |-> "unset"], out |-> <<>>, at |-> "idle"]

(***************************************************************************)
(* The scroll loops (scroll one viewport, wait, look again) and the        *)
(* scroll-and-collect loops.  One observation is what the page scripts of  *)
(* one iteration return: a script may raise, the scroll position and the   *)
(* element count are whatever the page says.  The records collected are    *)
(* counted up to MaxCollected, which stands for that many or more.         *)
(***************************************************************************)
MaxCollected == 2

ScrollLoops ==
    {"_scroll_to_bottom", "_scroll_to_bottom_naive", "_scroll_to_bottom_exhaustive"}

CollectLoops == {"_extract_startups_with_scroll", "_extract_companies_with_scroll"}

(* max_scrolls as the callers pass it, or the literal limit of the loop.   *)
Budget(fn) ==
    CASE fn = "_scroll_to_bottom" -> 20
      [] fn = "_scroll_to_bottom_naive" -> 50
      [] fn = "_scroll_to_bottom_exhaustive" -> 100
      [] fn = "_extract_startups_with_scroll" -> 50
      [] fn = "_extract_companies_with_scroll" -> 200

(* Scrolls that are made before an unchanged page is counted at all.       *)
ForcedScrolls(fn) ==
    CASE fn = "_scroll_to_bottom_naive" -> 10
      [] fn = "_scroll_to_bottom_exhaustive" -> 5
      [] OTHER -> 0

NoChangeLimit == 3

(* max_startups / max_companies from which the loop no longer stops on the *)
(* number of records collected.                                            *)
CollectNoLimit(fn) ==
    IF fn = "_extract_startups_with_scroll" THEN 50000 ELSE NoTruncationDefault

Observations(fn) ==
    IF fn \in ScrollLoops
    THEN [kind : {"value"}, position : 0..1, count : 0..1, at_bottom : BOOLEAN,
          scroll_ok : BOOLEAN]
            \cup [kind : {"raises"}, position : {0}, count : {0}, at_bottom : {FALSE},
                  scroll_ok : BOOLEAN]
    ELSE [kind : {"raises", "empty", "bad_json", "no_parse"}, new : {0}, scroll_ok : {TRUE}]
            \cup [kind : {"items"}, new : 0..1, scroll_ok : BOOLEAN]

NoScroll ==
    [fn |-> "none", at |-> "idle", i |-> 0, scroll_count |-> 0, last_position |-> -1,
     last_count |-> 0, no_change |-> 0, flat |-> 0, collected |-> 0, cap |-> 0]

(* What the iteration compares: appsumo reads the position only; a script  *)
(* that raises is read as position 0 and count 0 where it is caught.       *)
Unchanged(s, obs) ==
    /\ obs.position = s.last_position
    /\ s.fn # "_scroll_to_bottom" => obs.count = s.last_count

(* The iteration counts as one without progress.                           *)
CountsAsNoChange(s, obs) ==
    /\ Unchanged(s, obs)
    /\ s.scroll_count >= ForcedScrolls(s.fn)
    /\ s.fn = "_scroll_to_bottom_exhaustive" => obs.at_bottom

(* Variant: an iteration with growth leaves the count where it was.        *)
NoChangeAfterKeeps(s, obs) ==
    IF CountsAsNoChange(s, obs) THEN s.no_change + 1 ELSE s.no_change

NoChangeAfter(s, obs) ==
    IF CountsAsNoChange(s, obs) THEN s.no_change + 1
    ELSE IF s.fn = "_scroll_to_bottom_exhaustive" /\ s.scroll_count < ForcedScrolls(s.fn)
         THEN s.no_change
         ELSE 0

(* One body of a scroll loop.                                              *)
ScrollStep(s, obs) ==
    LET nc == NoChangeAfter(s, obs)
        seen_ == [s EXCEPT !.i = s.i + 1, !.no_change = nc,
                           !.flat = IF Unchanged(s, obs) THEN s.flat + 1 ELSE 0]
    IN  IF obs.kind = "raises" /\ s.fn = "_scroll_to_bottom"
        THEN [seen_ EXCEPT !.at = "raised"]
        ELSE IF CountsAsNoChange(s, obs) /\ nc >= NoChangeLimit
        THEN [seen_ EXCEPT !.at = "done"]
        ELSE IF ~obs.scroll_ok
        THEN [seen_ EXCEPT !.at = IF s.fn = "_scroll_to_bottom" THEN "raised" ELSE "done",
                           !.last_position = obs.position, !.last_count = obs.count]
        ELSE [seen_ EXCEPT !.last_position = obs.position, !.last_count = obs.count,
                           !.scroll_count = s.scroll_count + 1]

(* One body of a scroll-and-collect loop.                                  *)
CollectStep(s, obs) ==
    LET deeptech == s.fn = "_extract_companies_with_scroll"
        got == Min({s.collected + obs.new, MaxCollected})
        full == s.cap < CollectNoLimit(s.fn) /\ got >= s.cap
        nc == IF obs.kind = "items" /\ obs.new > 0 THEN 0 ELSE s.no_change + 1
        nc2 == IF deeptech /\ ~obs.scroll_ok THEN nc + 1 ELSE nc
        limit == IF obs.kind = "items" THEN (IF deeptech THEN 10 ELSE 5)
                 ELSE IF obs.kind = "raises" /\ deeptech THEN 3 ELSE 5
        seen_ == [s EXCEPT !.i = s.i + 1, !.collected = got, !.no_change = nc2,
                           !.flat = IF obs.new = 0 THEN s.flat + 1 ELSE 0]
    IN  IF obs.kind # "items"
        THEN [seen_ EXCEPT !.at = IF nc >= limit THEN "done" ELSE "loop"]
        ELSE IF full \/ (obs.new = 0 /\ nc >= limit)
        THEN [seen_ EXCEPT !.no_change = nc, !.at = "done"]
        ELSE IF ~obs.scroll_ok
        THEN [seen_ EXCEPT !.at = IF deeptech /\ nc2 < 3 THEN "loop" ELSE "done"]
        ELSE seen_

(* Variant: the limit of iterations holds only while nothing new appears.  *)
InBudgetWhileIdle(s) == s.i < Budget(s.fn) \/ s.no_change = 0

(* for i in range(max_scrolls) / while iteration < max_iterations          *)
InBudget(s) == s.i < Budget(s.fn)

(***************************************************************************)
(* The server process.  The registry is filled while the module is         *)
(* imported, and one run endpoint is created per registered agent; the     *)
(* state after import is the initial state.                                *)
(***************************************************************************)
MaxRuns == 2

RunIds == 1..MaxRuns

RegistryAtStartup == [a \in Registered |-> SchemaOf(a)]

NoBrowser == 0

NoRun == [agent |-> "none", at |-> "idle", browser |-> NoBrowser]

(* Variant: one Browser object created at import and handed to every run.  *)
NewBrowserShared(a, rs) == IF a \in UsesBrowser THEN 1 ELSE NoBrowser

(* browser = Browser(...): a local of the run_* coroutine, a new object    *)
(* for every call, distinct from every object that exists.  The runs that  *)
(* leave the browser to the Agent hold none.                               *)
NewBrowser(a, rs) ==
    IF a \in UsesBrowser
    THEN Min((1..MaxRuns) \ {rs[i].browser : i \in DOMAIN rs})
    ELSE NoBrowser

NothingSeen == [kind |-> "none", agents |-> {}]

(***************************************************************************)
(* State of one run: the run_* coroutine (agent .. browser, sections), the *)
(* answer of the run endpoint (http, content); and the state of the server *)
(* process: the registry, the runs in flight and what the read endpoints   *)
(* last answered.                                                          *)
(***************************************************************************)
VARIABLES agent, task, pc, hist, attempts, reason, result, exc, browser, http,
          sections, content, llm, registry, runs, seen, console, scroll, card

run_vars ==
    <<agent, task, pc, hist, attempts, reason, result, exc, browser, http, sections, content, llm>>

server_vars == <<registry, runs, seen>>

(* State of the shared helpers when they are exercised on their own: the   *)
(* argument and the captured standard output of print_llm_usage_summary,   *)
(* the locals of a scroll loop, and the locals of _parse_html_sections.    *)
lib_vars == <<console, scroll, card>>

vars == <<run_vars, server_vars, lib_vars>>

NoCard == [at |-> "idle", site |-> "none", sections |-> <<>>, k |-> 0, seen |-> {},
           out |-> <<>>, url |-> <<>>]

NoHttp == [status |-> 0, body |-> "none"]

NoSections == [kind |-> "none", frags |-> <<>>]

NoContent == [kind |-> "none"]

Init ==
    /\ agent = "none"
    /\ task = [url_ok |-> TRUE, cap |-> 1]
    /\ pc = "idle"
    /\ hist = NoHistory
    /\ attempts = <<>>
    /\ reason = ""
    /\ result = NoReport
    /\ exc = "none"
    /\ browser = [started |-> FALSE, kills |-> 0, kill_failed |-> FALSE]
    /\ http = NoHttp
    /\ sections = NoSections
    /\ content = NoContent
    /\ llm = {}
    /\ registry = RegistryAtStartup
    /\ runs = [i \in RunIds |-> NoRun]
    /\ seen = NothingSeen
    /\ console = NoConsole
    /\ scroll = NoScroll
    /\ card = NoCard

(* A request (or a command-line call) selects the agent and its input.     *)
Request(a, ok, cap) ==
    /\ pc = "idle"
    /\ ok \/ a \in UrlIsStr
    /\ agent' = a
    /\ task' = [url_ok |-> ok, cap |-> cap]
    /\ pc' = IF a \in UsesBrowser THEN "browser" ELSE "agent"
    /\ UNCHANGED <<hist, attempts, reason, result, exc, browser, http, sections, content>>
    /\ UNCHANGED <<server_vars, lib_vars, llm>>

(* Browser(...); await browser.start(): before the try block.              *)
BrowserStart(ok) ==
    /\ pc = "browser"
    /\ IF ok THEN browser' = [browser EXCEPT !.started = TRUE] /\ pc' = "navigate" /\ exc' = exc
       ELSE browser' = browser /\ pc' = "raised" /\ exc' = "Exception"
    /\ UNCHANGED <<agent, task, hist, attempts, reason, result, http, sections, content>>
    /\ UNCHANGED <<server_vars, lib_vars, llm>>

(* The agents that station-f creates and runs for the cookie banner        *)
(* (_accept_cookies_with_llm, when an API key is set) and for the login    *)
(* form (_handle_login), before it scrolls.                                *)
HelperAgents == {"cookies", "login"}

(* Conversion of the url, navigation, cookie and login steps.              *)
Navigate(outcome, helpers) ==
    /\ pc = "navigate"
    /\ outcome = "blocked" => agent = "stationf_companies_extractor"
    /\ helpers # {} => /\ agent = "stationf_companies_extractor"
                       /\ task.url_ok
    /\ llm' = llm \cup helpers
    /\ IF agent \in UrlIsStr /\ ~task.url_ok
       THEN exc' = "ValidationError" /\ pc' = "finally" /\ reason' = reason
       ELSE IF outcome = "error"
       THEN exc' = "Exception" /\ pc' = "finally" /\ reason' = reason
       ELSE IF outcome = "blocked"
       THEN exc' = exc /\ pc' = "sentinel" /\ reason' = ReasonPrecheck
       ELSE /\ exc' = exc /\ reason' = reason
            /\ pc' = IF agent \in HasDirect THEN "direct" ELSE "agent"
    /\ UNCHANGED <<agent, task, hist, attempts, result, browser, http, sections, content>>
    /\ UNCHANGED <<server_vars, lib_vars>>

PageResults ==
    {[kind |-> k, frags |-> <<>>] : k \in PageOutcomes} \cup
    {[kind |-> "html", frags |-> f] : f \in SeqsUpTo(Fragments, MaxFragments)}

(* Variant: the agent is created and run whatever the cards gave.          *)
AfterDirectAlwaysAgent(a, report) ==
    IF a \in DirectFailureToAgent THEN "agent"
    ELSE IF report # NoReport THEN "finally" ELSE "sentinel"

(* Where the run goes on after the cards were parsed.                      *)
AfterDirect(a, report) ==
    IF report # NoReport THEN "finally"
    ELSE IF a \in DirectFailureToAgent THEN "agent" ELSE "sentinel"

(* Scroll, page script and parse of the cards, before the extraction agent *)
(* exists.                                                                 *)
DirectExtract(page) ==
    /\ pc = "direct"
    /\ sections' = page
    /\ LET report == DirectReport(agent, task.cap, page.frags)
           uncaught == \/ page.kind = "nopage"
                       \/ agent = "appsumo_hot_extractor" /\ page.kind \in {"raises", "malformed"}
       IN IF uncaught
          THEN /\ exc' = IF page.kind = "malformed" THEN "JSONDecodeError" ELSE "Exception"
               /\ pc' = "finally"
               /\ UNCHANGED <<result, reason, attempts>>
          ELSE IF page.kind = "html" /\ report # NoReport
          THEN /\ result' = report
               /\ pc' = AfterDirect(agent, report)
               /\ attempts' = Append(attempts, Try("direct", "direct"))
               /\ UNCHANGED <<exc, reason>>
          ELSE /\ attempts' = Append(attempts, Try("direct", "direct"))
               /\ pc' = AfterDirect(agent, NoReport)
               /\ reason' = IF agent \in DirectFailureToAgent THEN reason
                             ELSE ReasonDirectFailed
               /\ UNCHANGED <<exc, result>>
    /\ UNCHANGED <<agent, task, hist, browser, http, content>>
    /\ UNCHANGED <<server_vars, lib_vars, llm>>

(* history = await agent.run()                                             *)
AgentRun(ok) ==
    /\ pc = "agent"
    /\ llm' = llm \cup {"extraction"}
    /\ IF ok THEN (\E h \in Histories(agent) : hist' = h) /\ pc' = "structured" /\ exc' = exc
       ELSE hist' = hist /\ pc' = "finally" /\ exc' = "Exception"
    /\ UNCHANGED <<agent, task, attempts, reason, result, browser, http, sections, content>>
    /\ UNCHANGED <<server_vars, lib_vars>>

(* if history.structured_output: return it (sanitized or filtered by the   *)
(* agents that post-process).                                              *)
TryStructuredOutput ==
    /\ pc = "structured"
    /\ attempts' = Append(attempts, Try("structured", "structured"))
    /\ IF hist.structured # NoReport
       THEN result' = PostProcess(agent, hist.structured) /\ pc' = "finally" /\ reason' = reason
       ELSE /\ result' = result
            /\ IF final_result(hist) # <<>>
               THEN pc' = "final_json" /\ reason' = reason
               ELSE IF agent = "product_research"
               THEN pc' = "sentinel" /\ reason' = ReasonNoJson
               ELSE IF agent = "startup_listing"
               THEN pc' = "markdown" /\ reason' = reason
               ELSE pc' = "exhausted" /\ reason' = reason
    /\ UNCHANGED <<agent, task, hist, exc, browser, http, sections, content>>
    /\ UNCHANGED <<server_vars, lib_vars, llm>>

(* Report.model_validate_json(final_result)                                *)
TryFinalJson ==
    /\ pc = "final_json"
    /\ attempts' = Append(attempts, Try("final_json", "json"))
    /\ IF JsonValid(SchemaOf(agent), final_result(hist))
       THEN /\ result' = PostProcess(agent, Validated(SchemaOf(agent), final_result(hist)[1].payload))
            /\ pc' = "finally" /\ reason' = reason
       ELSE /\ result' = result
            /\ IF agent = "product_research"
               THEN pc' = "sentinel" /\ reason' = ReasonBadJson
               ELSE pc' = "fenced" /\ reason' = reason
    /\ UNCHANGED <<agent, task, hist, exc, browser, http, sections, content>>
    /\ UNCHANGED <<server_vars, lib_vars, llm>>

(* The fenced-block search in the final result, after the ValidationError. *)
(* run_appsumo_hot_extraction returns None from the except clause when the *)
(* block does not validate.                                                *)
TryFencedJson ==
    /\ pc = "fenced"
    /\ attempts' = Append(attempts, Try("fenced", "fenced"))
    /\ IF FencedValid(SchemaOf(agent), final_result(hist))
       THEN /\ result' = PostProcess(agent, Validated(SchemaOf(agent),
                                                     FencedGroup(final_result(hist))[1].payload))
            /\ pc' = "finally"
       ELSE /\ result' = result
            /\ pc' = IF agent = "startup_listing" THEN "markdown"
                     ELSE IF agent = "appsumo_hot_extractor" /\ FenceOpens(final_result(hist)) # {}
                     THEN "finally"
                     ELSE "exhausted"
    /\ UNCHANGED <<agent, task, hist, reason, exc, browser, http, sections, content>>
    /\ UNCHANGED <<server_vars, lib_vars, llm>>

(* run_startup_listing: forward loop over the extracted contents.          *)
TryMarkdown ==
    /\ pc = "markdown"
    /\ LET contents == extracted_content(hist)
           startups == ForwardStartups(<<>>, contents)
           kept == IF task.cap < NoTruncation(agent) THEN Take(startups, task.cap) ELSE startups
       IN /\ attempts' = attempts \o ForwardTries(contents)
          /\ IF startups # <<>>
             THEN /\ result' = sanitize_report_startup_listing(
                                   Report(SchemaOf(agent), TaskUrl(agent), kept, <<>>))
                  /\ pc' = "finally"
             ELSE result' = result /\ pc' = "second_pass"
    /\ UNCHANGED <<agent, task, hist, reason, exc, browser, http, sections, content>>
    /\ UNCHANGED <<server_vars, lib_vars, llm>>

(* run_startup_listing: reversed loop over the extracted contents.         *)
TrySecondPass ==
    /\ pc = "second_pass"
    /\ LET contents == Reverse(extracted_content(hist))
           report == SecondPassReport(SchemaOf(agent), TaskUrl(agent), contents)
       IN /\ attempts' = attempts \o SecondPassTries(SchemaOf(agent), TaskUrl(agent), contents)
          /\ IF report # NoReport
             THEN result' = sanitize_report_startup_listing(report) /\ pc' = "finally"
             ELSE result' = result /\ pc' = "done_payload"
    /\ UNCHANGED <<agent, task, hist, reason, exc, browser, http, sections, content>>
    /\ UNCHANGED <<server_vars, lib_vars, llm>>

(* Variant: after the done payloads fail the run consults the structured   *)
(* output again.                                                           *)
TryDonePayloadRetries ==
    /\ pc = "done_payload"
    /\ LET actions == Reverse(model_actions(hist))
           report == DoneReport(SchemaOf(agent), actions)
       IN /\ attempts' = attempts \o DoneTries(SchemaOf(agent), actions)
          /\ IF report # NoReport
             THEN result' = sanitize_report_startup_listing(report) /\ pc' = "finally"
             ELSE result' = result /\ pc' = "structured"
    /\ UNCHANGED <<agent, task, hist, reason, exc, browser, http, sections, content>>
    /\ UNCHANGED <<server_vars, lib_vars, llm>>

(* run_startup_listing: reversed loop over the model actions.              *)
TryDonePayload ==
    /\ pc = "done_payload"
    /\ LET actions == Reverse(model_actions(hist))
           report == DoneReport(SchemaOf(agent), actions)
       IN /\ attempts' = attempts \o DoneTries(SchemaOf(agent), actions)
          /\ IF report # NoReport
             THEN result' = sanitize_report_startup_listing(report) /\ pc' = "finally"
             ELSE result' = result /\ pc' = "exhausted"
    /\ UNCHANGED <<agent, task, hist, reason, exc, browser, http, sections, content>>
    /\ UNCHANGED <<server_vars, lib_vars, llm>>

ExhaustedReason(a) ==
    CASE a = "startup_listing" -> ReasonInterrupted
      [] a = "futuretools_extractor" -> ReasonNoData
      [] OTHER -> ReasonNoStartups

(* return _fallback_report(url, reason)                                    *)
Sentinel ==
    /\ pc \in {"sentinel", "exhausted"}
    /\ agent # "appsumo_hot_extractor"
    /\ LET why == IF pc = "exhausted" THEN ExhaustedReason(agent) ELSE reason
       IN /\ reason' = why
          /\ result' = FallbackOf(agent, TaskUrl(agent), why)
    /\ attempts' = Append(attempts, Try("sentinel", "sentinel"))
    /\ pc' = "finally"
    /\ UNCHANGED <<agent, task, hist, exc, browser, http, sections, content>>
    /\ UNCHANGED <<server_vars, lib_vars, llm>>

(* run_appsumo_hot_extraction: return None                                 *)
ReturnNone ==
    /\ pc = "exhausted"
    /\ agent = "appsumo_hot_extractor"
    /\ result' = NoReport
    /\ pc' = "finally"
    /\ UNCHANGED <<agent, task, hist, attempts, reason, exc, browser, http, sections, content>>
    /\ UNCHANGED <<server_vars, lib_vars, llm>>

(* Variant: the browser is killed after the return statements only; an    *)
(* exception leaves the run without passing through the kill.              *)
FinallyOnReturnOnly(kill_ok) ==
    /\ pc = "finally"
    /\ kill_ok \/ agent \in UsesBrowser
    /\ browser' = IF agent \in UsesBrowser /\ exc = "none"
                  THEN [browser EXCEPT !.kills = @ + 1, !.kill_failed = ~kill_ok]
                  ELSE browser
    /\ pc' = IF exc = "none" THEN "returned" ELSE "raised"
    /\ UNCHANGED <<agent, task, hist, attempts, reason, result, exc, http, sections, content>>
    /\ UNCHANGED <<server_vars, lib_vars, llm>>

(* finally: try: await browser.kill() except Exception: the kill may fail, *)
(* and its exception is swallowed.                                         *)
Finally(kill_ok) ==
    /\ pc = "finally"
    /\ kill_ok \/ agent \in UsesBrowser
    /\ browser' = IF agent \in UsesBrowser
                  THEN [browser EXCEPT !.kills = @ + 1, !.kill_failed = ~kill_ok]
                  ELSE browser
    /\ pc' = IF exc = "none" THEN "returned" ELSE "raised"
    /\ UNCHANGED <<agent, task, hist, attempts, reason, result, exc, http, sections, content>>
    /\ UNCHANGED <<server_vars, lib_vars, llm>>

(* pydantic.ValidationError and json.JSONDecodeError are ValueErrors.      *)
IsValueError(e) == e \in {"ValidationError", "JSONDecodeError"}

(* run_agent of the HTTP wrapper.                                          *)
Respond ==
    /\ pc \in {"returned", "raised"}
    /\ agent \in Registered
    /\ http' = IF pc = "raised"
               THEN (IF IsValueError(exc) THEN [status |-> 400, body |-> "error"]
                     ELSE [status |-> 500, body |-> "error"])
               ELSE IF result = NoReport THEN [status |-> 500, body |-> "error"]
               ELSE IF is_fallback_report(result) THEN [status |-> 206, body |-> "fallback"]
               ELSE [status |-> 200, body |-> "report"]
    /\ content' = IF pc = "raised" \/ result = NoReport THEN NoContent ELSE model_dump(result)
    /\ pc' = "responded"
    /\ UNCHANGED <<agent, task, hist, attempts, reason, result, exc, browser, sections>>
    /\ UNCHANGED <<server_vars, lib_vars, llm>>

Next ==
    \/ \E a \in Agents, ok \in BOOLEAN : \E cap \in Caps(a) : Request(a, ok, cap)
    \/ \E ok \in BOOLEAN : BrowserStart(ok)
    \/ \E outcome \in {"ok", "error", "blocked"}, helpers \in SUBSET HelperAgents :
          Navigate(outcome, helpers)
    \/ \E page \in PageResults : DirectExtract(page)
    \/ \E ok \in BOOLEAN : AgentRun(ok)
    \/ TryStructuredOutput
    \/ TryFinalJson
    \/ TryFencedJson
    \/ TryMarkdown
    \/ TrySecondPass
    \/ TryDonePayload
    \/ Sentinel
    \/ ReturnNone
    \/ \E kill_ok \in BOOLEAN : Finally(kill_ok)
    \/ Respond

Spec == Init /\ [][Next]_vars

(***************************************************************************)
(* The startup-listing run when the agent leaves no structured output and  *)
(* no text, only its actions: the chain comes down to the done payloads.   *)
(***************************************************************************)
AgentRunActionsOnly(actions) ==
    /\ pc = "agent"
    /\ agent = "startup_listing"
    /\ llm' = llm \cup {"extraction"}
    /\ hist' = [NoHistory EXCEPT !.actions = actions]
    /\ pc' = "structured"
    /\ UNCHANGED <<agent, task, attempts, reason, result, exc, browser, http, sections, content>>
    /\ UNCHANGED <<server_vars, lib_vars>>

DoneNext ==
    \/ \E cap \in Caps("startup_listing") : Request("startup_listing", TRUE, cap)
    \/ \E actions \in SeqsUpTo(DoneActions, MaxDoneActions) : AgentRunActionsOnly(actions)
    \/ TryStructuredOutput
    \/ TryMarkdown
    \/ TrySecondPass
    \/ TryDonePayload
    \/ Sentinel
    \/ Finally(TRUE)
    \/ Respond

DoneSpec == Init /\ [][DoneNext]_vars

(***************************************************************************)
(* The server with several requests in flight.  A run endpoint is the      *)
(* closure created at import for one registered agent; its steps are those *)
(* of the run above and touch the state of that run only.  The read        *)
(* endpoints answer from the registry.                                     *)
(***************************************************************************)
run_agent_begin(i, a) ==
    /\ runs[i].at = "idle"
    /\ a \in DOMAIN RegistryAtStartup
    /\ runs' = [runs EXCEPT ![i] = [agent |-> a, at |-> "running",
                                    browser |-> NewBrowser(a, runs)]]
    /\ UNCHANGED <<registry, seen>>
    /\ UNCHANGED <<run_vars, lib_vars>>

(* Variant: a finished run removes its agent from the registry.            *)
run_agent_end_unregisters(i) ==
    /\ runs[i].at = "running"
    /\ runs' = [runs EXCEPT ![i].at = "responded"]
    /\ registry' = [a \in DOMAIN registry \ {runs[i].agent} |-> registry[a]]
    /\ UNCHANGED seen
    /\ UNCHANGED <<run_vars, lib_vars>>

run_agent_end(i) ==
    /\ runs[i].at = "running"
    /\ runs' = [runs EXCEPT ![i].at = "responded"]
    /\ UNCHANGED <<registry, seen>>
    /\ UNCHANGED <<run_vars, lib_vars>>

(* AgentRegistry.list_agents: a copy of the dictionary.                    *)
registry_list_agents(reg) == reg

(* GET /agents                                                             *)
list_agents ==
    /\ seen' = [kind |-> "list", agents |-> DOMAIN registry_list_agents(registry)]
    /\ UNCHANGED <<registry, runs>>
    /\ UNCHANGED <<run_vars, lib_vars>>

(* GET /agents/{agent_name}: 404 for a name the registry does not hold.    *)
describe_agent(name) ==
    /\ seen' = IF name \in DOMAIN registry
               THEN [kind |-> "describe", agents |-> {name}]
               ELSE [kind |-> "404", agents |-> {}]
    /\ UNCHANGED <<registry, runs>>
    /\ UNCHANGED <<run_vars, lib_vars>>

(* GET /health                                                             *)
healthcheck ==
    /\ seen' = [kind |-> "health", agents |-> DOMAIN registry_list_agents(registry)]
    /\ UNCHANGED <<registry, runs>>
    /\ UNCHANGED <<run_vars, lib_vars>>

ServerNext ==
    \/ \E i \in RunIds, a \in Registered : run_agent_begin(i, a)
    \/ \E i \in RunIds : run_agent_end(i)
    \/ list_agents
    \/ \E name \in Agents : describe_agent(name)
    \/ healthcheck

ServerSpec == Init /\ [][ServerNext]_vars

(***************************************************************************)
(* print_llm_usage_summary called on its own, as the unit tests do, with   *)
(* standard output captured.                                               *)
(***************************************************************************)
call_print_llm_usage_summary(history) ==
    /\ console.at = "idle"
    /\ console' = [history |-> history, out |-> <<>>, at |-> "called"]
    /\ UNCHANGED <<run_vars, server_vars, scroll, card>>

print_llm_usage_summary ==
    /\ console.at = "called"
    /\ console' =
          [console EXCEPT
              !.at = "returned",
              !.out = IF console.history.kind = "None" THEN <<NoticeNoHistory>>
                      ELSE IF console.history.usage = NoUsage THEN <<NoticeNoUsage>>
                      ELSE usage_lines(console.history.usage)]
    /\ UNCHANGED <<run_vars, server_vars, scroll, card>>

capsys_readouterr ==
    /\ console.at = "returned"
    /\ console' = NoConsole
    /\ UNCHANGED <<run_vars, server_vars, scroll, card>>

UsageNext ==
    \/ \E history \in HistoryArgs : call_print_llm_usage_summary(history)
    \/ print_llm_usage_summary
    \/ capsys_readouterr

UsageSpec == Init /\ [][UsageNext]_vars

(***************************************************************************)
(* One call of a scroll loop or of a scroll-and-collect loop.              *)
(***************************************************************************)
scroll_call(fn, initial_count, cap) ==
    /\ scroll.at = "idle"
    /\ scroll' = [NoScroll EXCEPT !.fn = fn, !.at = "loop", !.cap = cap,
                     !.last_count = IF fn = "_scroll_to_bottom" THEN 0 ELSE initial_count]
    /\ UNCHANGED <<run_vars, server_vars, console, card>>

scroll_iteration(obs) ==
    /\ scroll.at = "loop"
    /\ InBudget(scroll)
    /\ scroll' = IF scroll.fn \in ScrollLoops THEN ScrollStep(scroll, obs)
                 ELSE CollectStep(scroll, obs)
    /\ UNCHANGED <<run_vars, server_vars, console, card>>

scroll_exhausted ==
    /\ scroll.at = "loop"
    /\ ~InBudget(scroll)
    /\ scroll' = [scroll EXCEPT !.at = "done"]
    /\ UNCHANGED <<run_vars, server_vars, console, card>>

scroll_return ==
    /\ scroll.at \in {"done", "raised"}
    /\ scroll' = NoScroll
    /\ UNCHANGED <<run_vars, server_vars, console, card>>

ScrollNext ==
    \/ \E fn \in ScrollLoops, n \in 0..1 : scroll_call(fn, n, 0)
    \/ \E fn \in CollectLoops : \E cap \in {1, CollectNoLimit(fn)} : scroll_call(fn, 0, cap)
    \/ \E obs \in Observations(scroll.fn) : scroll_iteration(obs)
    \/ scroll_exhausted
    \/ scroll_return

ScrollSpec == Init /\ [][ScrollNext]_vars

(***************************************************************************)
(* The card parsers of the direct extraction, field by field.  A text is   *)
(* the sequence of its characters; None and the empty text are both <<>>.  *)
(* An element that a selector did not find is NoElement, a found one is    *)
(* the one-element sequence of its text.                                   *)
(***************************************************************************)
MaxCards == 2

NoElement == <<>>

Element(text) == <<text>>

Null == <<>>

DigitChars == {Digits[i] : i \in DOMAIN Digits}

RECURSIVE lstrip(_)
lstrip(text) == IF text # <<>> /\ Head(text) = " " THEN lstrip(Tail(text)) ELSE text

strip(text) == Reverse(lstrip(Reverse(lstrip(text))))

(* re.sub(r'\s+', ' ', value)                                              *)
RECURSIVE collapse(_)
collapse(text) ==
    IF Len(text) < 2 THEN text
    ELSE IF text[1] = " " /\ text[2] = " " THEN collapse(Tail(text))
    ELSE <<Head(text)>> \o collapse(Tail(text))

clean_text(el) == IF el = NoElement THEN <<>> ELSE strip(collapse(el[1]))

get_text_strip(el) == IF el = NoElement THEN <<>> ELSE strip(el[1])

LowerChar(c) == CASE c = "A" -> "a" [] c = "B" -> "b" [] c = "X" -> "x" [] OTHER -> c

lower(text) == [i \in 1..Len(text) |-> LowerChar(text[i])]

(* The longest run of characters of chars at the start of text.            *)
RECURSIVE Run(_, _)
Run(text, chars) ==
    IF text # <<>> /\ Head(text) \in chars THEN <<Head(text)>> \o Run(Tail(text), chars)
    ELSE <<>>

(* re.search of a pattern that starts with \d and goes on with chars.      *)
search_digits(text, chars) ==
    LET at == {i \in 1..Len(text) : text[i] \in DigitChars}
    IN IF at = {} THEN <<>> ELSE Run(SubSeq(text, Min(at), Len(text)), chars)

RECURSIVE int(_)
int(digits) ==
    IF digits = <<>> THEN 0
    ELSE 10 * int(SubSeq(digits, 1, Len(digits) - 1))
         + (CHOOSE d \in 0..9 : Digit(d) = digits[Len(digits)])

(* Variant: a text without a number is taken for zero.                     *)
parse_reviews_count_zero(el) ==
    IF el = NoElement THEN Null
    ELSE <<int(SelectSeq(search_digits(el[1], DigitChars \cup {","}), LAMBDA c : c # ","))>>

parse_reviews_count(el) ==
    IF el = NoElement \/ el[1] = <<>> THEN Null
    ELSE LET match == search_digits(el[1], DigitChars \cup {","})
         IN IF match = <<>> THEN Null
            ELSE <<int(SelectSeq(match, LAMBDA c : c # ","))>>

(* deeptech: re.search(r'(\d+)', ranking_text) and int of the group.       *)
parse_ranking(el) ==
    IF el = NoElement THEN Null
    ELSE LET match == search_digits(strip(el[1]), DigitChars)
         IN IF match = <<>> THEN Null ELSE <<int(match)>>

(* zone-secure: the loop leaves at the first text longer than one          *)
(* character; a shorter text stays in name until a later element           *)
(* replaces it.                                                            *)
RECURSIVE name_loop(_, _)
name_loop(name, els) ==
    IF els = <<>> THEN name
    ELSE IF Head(els) = NoElement THEN name_loop(name, Tail(els))
    ELSE LET text == get_text_strip(Head(els))
         IN IF text # <<>> /\ Len(text) > 1 THEN text ELSE name_loop(text, Tail(els))

(* startup_element.get_text(strip=True): the stripped texts of the card.   *)
RECURSIVE element_text(_)
element_text(els) ==
    IF els = <<>> THEN <<>> ELSE get_text_strip(Head(els)) \o element_text(Tail(els))

(* Variant: the last selector that gives a text wins.                      *)
first_clean_text_last(els) ==
    LET hits == SelectSeq([i \in 1..Len(els) |-> clean_text(els[i])], LAMBDA t : t # <<>>)
    IN IF hits = <<>> THEN <<>> ELSE hits[Len(hits)]

(* appsumo: for selector in name_selectors ... if name: break              *)
first_clean_text(els) ==
    LET hits == SelectSeq([i \in 1..Len(els) |-> clean_text(els[i])], LAMBDA t : t # <<>>)
    IN IF hits = <<>> THEN <<>> ELSE hits[1]

zone_secure_name(c) ==
    LET name == name_loop(<<>>, c.names)
    IN strip(IF name = <<>> THEN element_text(c.names \o <<c.count, c.description>>) ELSE name)

CardRecord(name, count, description) ==
    [name |-> name, count |-> count, description |-> description]

(* The record of one section; <<>> when the section gives no name.         *)
parse_card(site, c) ==
    LET name == CASE site = "appsumo" -> first_clean_text(c.names)
                  [] site = "deeptech" -> get_text_strip(c.names[1])
                  [] OTHER -> zone_secure_name(c)
        count == CASE site = "appsumo" -> parse_reviews_count(c.count)
                   [] site = "deeptech" -> parse_ranking(c.count)
                   [] OTHER -> Null
        description == IF site = "appsumo" THEN clean_text(c.description)
                       ELSE get_text_strip(c.description)
    IN IF name = <<>> THEN <<>> ELSE <<CardRecord(name, count, description)>>

CardSites == {"appsumo", "deeptech", "zone_secure"}

NameTexts == {<<>>, <<" ">>, <<"X">>, <<"A", "b">>, <<" ", "A", "B", " ">>}

CountTexts == {<<>>, <<"n", "a">>, <<"1", "2">>, <<"(", "1", ",", "2", "0", ")">>}

Elements(texts) == {NoElement} \cup {Element(t) : t \in texts}

Card(names, count, description) ==
    [names |-> names, count |-> count, description |-> description]

(* Cards that differ in what each name selector finds.                     *)
SelectorCards ==
    {Card(names, NoElement, NoElement) : names \in [1..3 -> Elements(NameTexts)]}

(* Cards that differ in the fields beside the name.                        *)
FieldCards ==
    {Card(<<name, NoElement, NoElement>>, count, description) :
        name \in {Element(<<>>), Element(<<"A", "b">>), Element(<<"A", "B">>)},
        count \in Elements(CountTexts \ {<<>>}),
        description \in {Element(<<" ", "o", "k">>)}}

(***************************************************************************)
(* The allow-list of _normalize_producthunt_url and                        *)
(* _normalize_deeptech_url.  A URL text is the sequence of its parts: the  *)
(* scheme with its "://", the labels of the host, "/" and "?" and the      *)
(* words between them.                                                     *)
(***************************************************************************)
UrlSites == {"product_hunt", "deeptech"}

SiteDomain(site) == IF site = "product_hunt" THEN "producthunt.com" ELSE "lesdeeptech.fr"

BaseUrl(site) ==
    IF site = "product_hunt" THEN <<"https://", "www.", "producthunt.com", "/", "leaderboard">>
    ELSE <<"https://", "observatoire.", "lesdeeptech.fr", "/", "companies">>

LowerPart(part) ==
    CASE part = "ProductHunt.com" -> "producthunt.com"
      [] part = "LesDeeptech.fr" -> "lesdeeptech.fr"
      [] OTHER -> part

(* 'producthunt.com' in url.lower()                                        *)
MentionsDomain(url, site) == \E i \in 1..Len(url) : LowerPart(url[i]) = SiteDomain(site)

(* urlparse(url).netloc: the parts between the scheme and the path.        *)
netloc(url) == Run(Tail(url), {"www.", "observatoire.", "producthunt.com", "lesdeeptech.fr",
                               "ProductHunt.com", "LesDeeptech.fr", "evil.test", ".evil.test"})

(* urljoin(base_url, url) for a url that does not start with "/".          *)
urljoin(base, url) ==
    IF Head(url) \in {"ftp://", "HTTPS://"} THEN url
    ELSE SubSeq(base, 1, Max({i \in 1..Len(base) : base[i] = "/"})) \o url

normalize_site_url(site, url) ==
    IF url = <<>> THEN <<>>
    ELSE IF Head(url) \in {"http://", "https://"}
         THEN (IF MentionsDomain(url, site) THEN url ELSE <<>>)
    ELSE IF Head(url) = "/"
         THEN <<BaseUrl(site)[1]>> \o netloc(BaseUrl(site)) \o url
    ELSE LET resolved == urljoin(BaseUrl(site), url)
         IN IF MentionsDomain(resolved, site) THEN resolved ELSE <<>>

Hrefs(site) ==
    {<<>>,
     <<"https://", "www.", SiteDomain(site), "/", "x">>,
     <<"https://", SiteDomain(site)>>,
     <<"http://", "evil.test", "/", "x">>,
     <<"https://", "evil.test", "/", SiteDomain(site)>>,
     <<"https://", SiteDomain(site), ".evil.test", "/", "x">>,
     <<"https://", "evil.test", "?", "ref=", SiteDomain(site)>>,
     <<"/", "x">>,
     <<"/", "/", "evil.test", "/", "x">>,
     <<"x">>,
     <<"x", "/", "y">>,
     <<"ftp://", "evil.test", "/", "x">>,
     <<"ftp://", "evil.test", "/", SiteDomain(site)>>,
     <<"HTTPS://", "evil.test", "/", SiteDomain(site)>>}

(* _parse_html_sections is entered with the list of sections.              *)
parse_html_sections_call(site, html_sections) ==
    /\ card.at = "idle"
    /\ card' = [NoCard EXCEPT !.at = "sections", !.site = site, !.sections = html_sections]
    /\ UNCHANGED <<run_vars, server_vars, console, scroll>>

(* One turn of the loop over the sections.                                 *)
parse_html_section ==
    /\ card.at = "sections"
    /\ card.k < Len(card.sections)
    /\ LET parsed == parse_card(card.site, card.sections[card.k + 1])
           name_key == lower(parsed[1].name)
       IN card' =
            IF parsed = <<>> THEN [card EXCEPT !.k = @ + 1]
            ELSE IF card.site = "appsumo" /\ name_key \in card.seen
                 THEN [card EXCEPT !.k = @ + 1]
            ELSE [card EXCEPT !.k = @ + 1,
                              !.seen = IF card.site = "appsumo" THEN @ \cup {name_key} ELSE @,
                              !.out = Append(@, parsed[1])]
    /\ UNCHANGED <<run_vars, server_vars, console, scroll>>

(* The report of the records, or None when there is none.                  *)
parse_html_sections_return ==
    /\ card.at = "sections"
    /\ card.k = Len(card.sections)
    /\ card' = [card EXCEPT !.at = IF card.out = <<>> THEN "none" ELSE "report"]
    /\ UNCHANGED <<run_vars, server_vars, console, scroll>>

(* The site's url normalizer on one href.                                  *)
normalize_url_call(site, url) ==
    /\ card.at = "idle"
    /\ card' = [NoCard EXCEPT !.at = "url", !.site = site, !.sections = <<url>>,
                              !.url = normalize_site_url(site, url)]
    /\ UNCHANGED <<run_vars, server_vars, console, scroll>>

CardNext ==
    \/ \E site \in CardSites, c \in SelectorCards : parse_html_sections_call(site, <<c>>)
    \/ \E site \in CardSites \ {"zone_secure"}, html_sections \in SeqsUpTo(FieldCards, MaxCards) :
          parse_html_sections_call(site, html_sections)
    \/ parse_html_section
    \/ parse_html_sections_return
    \/ \E site \in UrlSites : \E url \in Hrefs(site) : normalize_url_call(site, url)

CardSpec == Init /\ [][CardNext]_vars

(***************************************************************************)
(* Properties.                                                             *)
(***************************************************************************)
Returned == pc \in {"returned", "responded"} /\ exc = "none"

EndedInSentinel == attempts # <<>> /\ Last(attempts).stage = "sentinel" /\ Returned

StagesTried == {attempts[i].stage : i \in 1..Len(attempts)}

(* C1: every report a run returns holds at least one record.               *)
C1_ReturnedReportHasRecord ==
    (Returned /\ result # NoReport) => Len(result.records) >= 1

(* C2: a run whose extraction failed completely still returns a report:    *)
(* it neither raises nor returns "no report" once the agent has run.       *)
C2_FailureStillReturnsReport ==
    (pc \in {"returned", "responded"} /\ "structured" \in StagesTried) => result # NoReport

(* C3: a run that ends in the sentinel state returns exactly one record,   *)
(* named with the sentinel name, and the report stores the failure reason  *)
(* as non-empty text in a notes field.                                     *)
ReasonStored(r) ==
    /\ reason # ""
    /\ \/ \E i \in 1..Len(r.notes) : r.notes[i] = reason
       \/ \E k \in 1..Len(r.records) :
             \/ \E i \in 1..Len(r.records[k].notes) : r.records[k].notes[i] = reason
             \/ r.records[k].description = <<reason>>

C3_SentinelCarriesReason ==
    EndedInSentinel =>
        /\ Len(result.records) = 1
        /\ result.records[1].name = SENTINEL_NAME
        /\ ReasonStored(result)

StageRank(stage) ==
    CASE stage = "direct" -> 0
      [] stage = "structured" -> 1
      [] stage = "final_json" -> 2
      [] stage = "fenced" -> 3
      [] stage = "markdown" -> 4
      [] stage = "second_pass" -> 5
      [] stage = "done_payload" -> 6
      [] stage = "sentinel" -> 7

SourceRank(source) ==
    CASE source = "direct" -> 0
      [] source = "structured" -> 1
      [] source = "json" -> 2
      [] source \in {"fenced", "object"} -> 3
      [] source = "table" -> 4
      [] source = "line" -> 5
      [] source = "done" -> 6
      [] source = "sentinel" -> 7

TimesTried(stage) == Cardinality({i \in 1..Len(attempts) : attempts[i].stage = stage})

(* C4 as stated: the chain tries its sources in the fixed order structured *)
(* output, final JSON, fenced JSON, markdown table, line format, done      *)
(* payload, sentinel, and never goes back to an earlier source.            *)
C4_SourcesStrictlyOrdered ==
    \A i, j \in 1..Len(attempts) :
        i < j => SourceRank(attempts[i].source) < SourceRank(attempts[j].source)

(* C4 amended: the chain enters its stages in the fixed order structured   *)
(* output, final result as JSON, fenced JSON of the final result, forward  *)
(* markdown pass over the extracted contents, reversed pass over the       *)
(* extracted contents, done payloads, sentinel; it never returns to an     *)
(* earlier stage, and the structured output, the final result and the      *)
(* sentinel are each consulted at most once.  Inside the two passes the    *)
(* table and line parsers (and, in the reversed pass, the JSON searches)   *)
(* are applied to every content in turn.                                   *)
C4_StagesInOrder ==
    /\ \A i, j \in 1..Len(attempts) :
          i < j => StageRank(attempts[i].stage) <= StageRank(attempts[j].stage)
    /\ \A stage \in {"direct", "structured", "final_json", "fenced", "sentinel"} :
          TimesTried(stage) <= 1

C4_Witness ==
    /\ Returned
    /\ {"structured", "final_json", "fenced", "markdown", "second_pass", "done_payload",
        "sentinel"} \subseteq StagesTried
    /\ ~C4_SourcesStrictlyOrdered

(* C5: when the direct path yields zero records the run goes on to the     *)
(* agent-driven chain; the sentinel is returned only after the chain.      *)
C5_DirectFailureRunsAgent ==
    (EndedInSentinel /\ attempts[1].stage = "direct") => "structured" \in StagesTried

(* C6: a schema validation failure in a chain state never raises and never *)
(* ends the run at that state: a later chain state is entered.             *)
ValidationFails ==
    \/ pc = "final_json" /\ ~JsonValid(SchemaOf(agent), final_result(hist))
    \/ /\ pc = "fenced"
       /\ FenceOpens(final_result(hist)) # {}
       /\ ~FencedValid(SchemaOf(agent), final_result(hist))
    \/ pc = "second_pass" /\ result' = NoReport
    \/ pc = "done_payload" /\ result' = NoReport

C6_ValidationFailureContinues ==
    [][ValidationFails =>
          /\ exc' = "none"
          /\ pc' \in {"fenced", "markdown", "second_pass", "done_payload", "sentinel",
                      "exhausted"}]_vars

Names(recs) == [i \in 1..Len(recs) |-> recs[i].name]

RECURSIVE IsSubsequence(_, _)
IsSubsequence(s, t) ==
    IF s = <<>> THEN TRUE
    ELSE IF t = <<>> THEN FALSE
    ELSE IF Head(s) = Head(t) THEN IsSubsequence(Tail(s), Tail(t))
    ELSE IsSubsequence(s, Tail(t))

ReturnsStructuredAsIs ==
    {"appsumo_hot_extractor", "futuretools_extractor", "universal_startup_extractor"}

LineOriented(text) ==
    /\ text # <<>>
    /\ \A i \in 1..Len(text) :
          text[i].t \in {"numbered_name", "bold_name_colon", "name_colon_bold", "field",
                         "description"}
    /\ text[1].t \in {"numbered_name", "bold_name_colon", "name_colon_bold"}

C8_LineFormatYieldsRecords ==
    (/\ Returned
     /\ agent = "startup_listing"
     /\ hist.structured = NoReport
     /\ LineOriented(final_result(hist))) =>
        /\ ~EndedInSentinel
        /\ Last(attempts) = Try("markdown", "line")

(* C9: the run endpoint answers 206 with the fallback body exactly when    *)
(* the run ended in the sentinel state, and 200 with the report otherwise. *)
C9_SentinelAnswers206 ==
    (pc = "responded" /\ exc = "none" /\ result # NoReport) =>
        IF EndedInSentinel THEN http = [status |-> 206, body |-> "fallback"]
        ELSE http = [status |-> 200, body |-> "report"]

(* C10: a failed run is answered 400 when the caller's input caused the    *)
(* error and 500 when the error is internal, a run that returned no report *)
(* included; a failed run is never answered with a success status.         *)
C10_FailureStatus ==
    (pc = "responded" /\ (exc # "none" \/ result = NoReport)) =>
        http.status = IF exc = "ValidationError" THEN 400 ELSE 500

(***************************************************************************)
(* Batch assembly: the report a run returns from the direct extraction or  *)
(* from the forward markdown pass.                                         *)
(***************************************************************************)
BatchAssembled ==
    /\ Returned
    /\ result # NoReport
    /\ attempts # <<>>
    /\ Last(attempts).stage \in {"direct", "markdown"}

Parsed ==
    IF Last(attempts).stage = "direct"
    THEN parse_html_sections(agent, TaskUrl(agent), <<>>, sections.frags)
    ELSE ForwardStartups(<<>>, extracted_content(hist))

C12_ReturnedWithinCap ==
    (Returned /\ result # NoReport) => Len(result.records) <= task.cap

(* C13: after deduplication no two records share the dedup key (the        *)
(* case-insensitive name, with the url), and the record kept for a key is  *)
(* the first one encountered.                                              *)
ClaimedKey(r) == <<Lower(r.name), r.url.path>>

FirstCard(r) ==
    Min({k \in 1..Len(sections.frags) :
            /\ sections.frags[k].name # ""
            /\ ClaimedKey(parse_product_card(sections.frags[k], TaskUrl(agent))) = ClaimedKey(r)})

C13_NoSharedDedupKey ==
    BatchAssembled =>
        /\ Cardinality({ClaimedKey(result.records[i]) : i \in 1..Len(result.records)})
              = Len(result.records)
        /\ Last(attempts).stage = "direct" =>
              \A i \in 1..Len(result.records) :
                  result.records[i].name = sections.frags[FirstCard(result.records[i])].name

(* C14: batch assembly is idempotent: assembled again from the cards of    *)
(* its own result, with the same cap, it yields the same report, and       *)
(* deduplicating the deduplicated list changes nothing.                    *)
CardOf(r) == Fragment(r.name, r.url.path)

Reassembled ==
    DirectReport(agent, task.cap, [i \in 1..Len(result.records) |-> CardOf(result.records[i])])

C15_NoEmptyName ==
    (Returned /\ result # NoReport) =>
        /\ \A i \in 1..Len(result.records) : result.records[i].name # ""
        /\ "company" \in DOMAIN result => result.company.name # ""

(* C16: a url that starts with "/" is resolved against the origin (scheme  *)
(* and host) of the page its fragment came from.                           *)
RelativeRows ==
    {hist.outputs[k][l] : <<k, l>> \in
        {<<k, l>> \in (1..Len(hist.outputs)) \X (1..(LongTableRows + 2)) :
            /\ l <= Len(hist.outputs[k])
            /\ hist.outputs[k][l].t = "trow"
            /\ hist.outputs[k][l].url # NoUrl
            /\ ~IsAbsolute(hist.outputs[k][l].url)}}

OnPageOrigin(path) == Url(TaskUrl(agent).scheme, TaskUrl(agent).host, path)

C16_RelativeUrlResolved ==
    BatchAssembled =>
        IF Last(attempts).stage = "direct"
        THEN \A i \in 1..Len(result.records) :
                result.records[i].url =
                    OnPageOrigin(sections.frags[FirstCard(result.records[i])].href)
        ELSE \A row \in RelativeRows : \A i \in 1..Len(result.records) :
                result.records[i].name = row.name =>
                    result.records[i].url = OnPageOrigin(row.url.path)

(* C17: the markdown-table state takes the tables of all extraction        *)
(* outputs, header aliases such as "Startup Name" included, and            *)
(* accumulates their rows into one list in which no name occurs twice.     *)
TableRowNames ==
    {hist.outputs[k][l].name : <<k, l>> \in
        {<<k, l>> \in (1..Len(hist.outputs)) \X (1..(LongTableRows + 2)) :
            /\ l <= Len(hist.outputs[k])
            /\ hist.outputs[k][l].t = "trow"
            /\ hist.outputs[k][l].name # ""}}

C17_TablesAccumulated ==
    (/\ Returned
     /\ "markdown" \in StagesTried
     /\ task.cap = NoTruncation(agent)) =>
        /\ TableRowNames \subseteq {result.records[i].name : i \in 1..Len(result.records)}
        /\ Cardinality({result.records[i].name : i \in 1..Len(result.records)})
              = Len(result.records)

CollectionFailed(page) ==
    \/ page.kind = "raises"
    \/ page.kind = "html" /\ page.frags = <<>>

C19_CollectionNeverThrows ==
    [][(pc = "direct" /\ CollectionFailed(sections')) =>
          /\ exc' = "none"
          /\ pc' \in {"agent", "sentinel"}]_vars

C21_BrowserExclusive ==
    [][/\ \A i, j \in RunIds :
            (/\ i # j
             /\ runs'[i].at = "running" /\ runs'[j].at = "running"
             /\ runs'[i].browser # NoBrowser) => runs'[i].browser # runs'[j].browser
       /\ \A i \in RunIds :
            runs[i].at = "running" => runs'[i].browser = runs[i].browser]_vars

C21_Witness ==
    /\ \A i \in RunIds : runs[i].at = "running" /\ runs[i].browser # NoBrowser
    /\ runs[1].agent = runs[2].agent

(* C22: print_llm_usage_summary prints the total cost with four decimals   *)
(* and the total token count when the history has usage data, and prints   *)
(* a notice instead, and returns, when the history or its usage is None.   *)
CostLine == console.out[2]

C22_UsageSummaryPrinted ==
    console.at = "returned" =>
        IF console.history.kind = "None" \/ console.history.usage = NoUsage
        THEN /\ Len(console.out) = 1
             /\ console.out[1] \in {NoticeNoHistory, NoticeNoUsage}
        ELSE LET usage == console.history.usage
                 shown == 10000 * (CHOOSE d \in 0..99 : ToString(d) = CostLine[3])
                            + (CHOOSE k \in 0..9999 :
                                 <<Digit((k \div 1000) % 10), Digit((k \div 100) % 10),
                                   Digit((k \div 10) % 10), Digit(k % 10)>> = SubSeq(CostLine, 5, 8))
             IN /\ CostLine[2] = "$" /\ CostLine[4] = "."
                /\ CostLine[9] = " pour "
                /\ 10 * shown - usage.total_cost \in -4..4
                /\ CostLine[10] = Thousands(usage.total_tokens)
                /\ CostLine[11] = " tokens"

C22_Witness ==
    /\ console.at = "returned"
    /\ console.history.kind = "history"
    /\ console.history.usage # NoUsage
    /\ console.history.usage.total_cost = 5790
    /\ console.history.usage.total_tokens = 579
    /\ SubSeq(CostLine, 2, 8) = <<"$", "0", ".", "0", "5", "7", "9">>

C24_LoopWithinBudget ==
    [][/\ scroll'.fn # "none" => scroll'.i <= Budget(scroll'.fn)
       /\ (scroll.at = "loop" /\ scroll'.at = "loop") => scroll'.i = scroll.i + 1
       /\ (scroll.at = "loop" /\ scroll.i = Budget(scroll.fn)) =>
              /\ scroll'.at = "done"
              /\ scroll'.collected = scroll.collected
       /\ scroll'.at = "raised" => scroll'.fn = "_scroll_to_bottom"]_vars

C24_Witness ==
    /\ scroll.fn = "_extract_companies_with_scroll"
    /\ scroll.at = "done"
    /\ scroll.i = Budget(scroll.fn)
    /\ scroll.collected > 0

(* C25: in the runs that start their own browser, browser.kill() is called *)
(* exactly once on every way out after the browser started (report,        *)
(* sentinel, None or exception), and a kill that fails changes neither the *)
(* result nor the exception of the run.                                    *)
C25_KilledExactlyOnce ==
    /\ browser.kills <= 1
    /\ browser.kills = 1 => browser.started
    /\ (browser.started /\ pc \in {"returned", "raised", "responded"}) => browser.kills = 1
    /\ (browser.kill_failed /\ pc = "returned") => exc = "none"
    /\ (browser.kill_failed /\ pc = "raised") => exc \in {"Exception", "ValidationError", "JSONDecodeError"}
    /\ (browser.kills = 1 /\ exc = "none") => pc \in {"returned", "responded"}

C25_Witness ==
    /\ pc = "raised"
    /\ browser.started
    /\ browser.kills = 1
    /\ browser.kill_failed
    /\ exc = "JSONDecodeError"

(* C26: when direct extraction yields at least one record the run returns  *)
(* that report and no LLM agent was ever created or run; the agent runs    *)
(* only after direct extraction produced no record.                        *)
DirectGaveRecords ==
    /\ agent \in HasDirect
    /\ sections.kind = "html"
    /\ DirectReport(agent, task.cap, sections.frags) # NoReport

C26_DirectWithoutAnyAgent ==
    /\ DirectGaveRecords =>
          /\ llm = {}
          /\ pc \in {"returned", "responded"} =>
                result = DirectReport(agent, task.cap, sections.frags)
    /\ (agent \in HasDirect /\ "extraction" \in llm) =>
          /\ sections # NoSections
          /\ ~DirectGaveRecords

(* C26 for the extraction agent: it is neither created nor run when direct *)
(* extraction gave a record, and the report of the cards is returned; the  *)
(* only agents that ran before are those station-f uses for the cookie     *)
(* banner and the login form.                                              *)
C26_DirectWithoutExtractionAgent ==
    /\ DirectGaveRecords =>
          /\ "extraction" \notin llm
          /\ llm # {} => agent = "stationf_companies_extractor"
          /\ pc \in {"returned", "responded"} =>
                result = DirectReport(agent, task.cap, sections.frags)
    /\ (agent \in HasDirect /\ "extraction" \in llm) =>
          /\ sections # NoSections
          /\ ~DirectGaveRecords

C26_Witness ==
    /\ DirectGaveRecords
    /\ agent = "futuretools_extractor"
    /\ pc = "returned"
    /\ Len(result.records) = 2
    /\ llm = {}

(* C27: the raw-action-payload state takes the done actions from newest to *)
(* oldest and returns the report validated from the first one whose data   *)
(* validates, directly or after its url leaves are turned to text and the  *)
(* data is serialized to JSON again; it fails only when none validates.    *)
ValidDone ==
    {k \in 1..Len(model_actions(hist)) :
        /\ model_actions(hist)[k].name = "done"
        /\ model_actions(hist)[k].has_data
        /\ SchemaValid(SchemaOf(agent), model_actions(hist)[k].data)}

C27_NewestValidDoneWins ==
    (pc \in {"finally", "returned", "responded"} /\ exc = "none" /\ attempts # <<>>) =>
        /\ Last(attempts).stage = "done_payload" =>
              /\ ValidDone # {}
              /\ result = sanitize_report_startup_listing(
                     Validated(SchemaOf(agent), model_actions(hist)[Max(ValidDone)].data))
        /\ Last(attempts).stage = "sentinel" => ValidDone = {}

C27_Witness ==
    /\ pc = "returned"
    /\ Last(attempts).stage = "done_payload"
    /\ Len(model_actions(hist)) = 3
    /\ ValidDone = {1, 2}
    /\ model_actions(hist)[1].data # model_actions(hist)[2].data
    /\ model_actions(hist)[2].leaves = "object"
    /\ Len(result.records) = 1

(* C28: a field that cannot be parsed becomes null and nothing else        *)
(* changes: every section with a name still gives its record, with its     *)
(* other fields, and the sections after it are parsed all the same.        *)
HasDigit(el) == el # NoElement /\ \E i \in 1..Len(el[1]) : el[1][i] \in DigitChars

NamedSections ==
    SelectSeq(card.sections, LAMBDA c : c.names[1] # NoElement /\ strip(c.names[1][1]) # <<>>)

KeptSections ==
    IF card.site # "appsumo" THEN NamedSections
    ELSE LET idx == SelectSeq([i \in 1..Len(NamedSections) |-> i],
                     LAMBDA i : \A j \in 1..(i - 1) :
                        lower(strip(NamedSections[j].names[1][1])) #
                        lower(strip(NamedSections[i].names[1][1])))
         IN [k \in 1..Len(idx) |-> NamedSections[idx[k]]]

SelectorTexts ==
    [i \in 1..Len(card.sections[1].names) |->
        IF card.site = "appsumo" THEN clean_text(card.sections[1].names[i])
        ELSE get_text_strip(card.sections[1].names[i])]

OneSelectorCard ==
    /\ card.at \in {"report", "none"}
    /\ card.site \in {"appsumo", "zone_secure"}
    /\ Len(card.sections) = 1
    /\ card.sections[1] \in SelectorCards

SiteHosts(site) ==
    {<<SiteDomain(site)>>, <<"www.", SiteDomain(site)>>, <<"observatoire.", SiteDomain(site)>>}

C30_NoOffDomainUrl ==
    (card.at = "url" /\ card.url # <<>>) => netloc(card.url) \in SiteHosts(card.site)

====
